---- MODULE Spec2Model ----
(***************************************************************************)
(* Model of the three command line utilities of the repository:           *)
(*   src/bin2tif/bin2tif.py, src/metadata_cleaner/metadata_cleaner.py and  *)
(*   src/scripts/fetch_bety_data.py.                                       *)
(*                                                                         *)
(* One run of one utility is a behaviour.  The external libraries          *)
(* (terrautils, terraref, pyclowder) are opaque: every library call        *)
(* either returns a value chosen from a small set or raises.               *)
(*                                                                         *)
(* Python values: str used with string operations are sequences of        *)
(* one-character strings; a dict is a function whose domain is its set of  *)
(* keys; None has one sentinel per type (NoneStr, NoneSeq, NoneDict).      *)
(***************************************************************************)
EXTENDS Integers, Sequences, FiniteSets, TLC

VARIABLES util,        \* which script runs
          json_file,   \* what the metadata file holds (NoneDict: not loadable)
          args,        \* what parse_args gives for the command line it accepts
          pc,          \* position in the script
          frame,       \* local variables of the running function
          result,      \* the result dictionary
          fs,          \* files written by the run: path -> content
          environ,     \* os.environ entries set by the run
          stdout,      \* documents printed by the run
          calls,       \* library calls made so far, in order
          exc,         \* exception in flight (NoExc when none)
          handler_logs,\* messages logged by the top level handler
          exit_status  \* <<>> while running, then <<status>>

vars == <<util, json_file, args, pc, frame, result, fs, environ, stdout, calls, exc,
          handler_logs, exit_status>>

----------------------------------------------------------------------------
(* Bounds *)

MaxOptLen == 5

----------------------------------------------------------------------------
(* Python values *)

NoneStr == "<None>"
NoneSeq == <<"<None>">>
NoneDict == [x \in {"<None>"} |-> TRUE]
EmptyDict == <<>>

\* the content of a file that open(path, 'w') created and nothing was written to
EmptyFile == [x \in {"<empty file>"} |-> TRUE]

\* the content of a file that holds a beginning of the text of json.dump(doc)
\* and not its end: text that is not a JSON document
TruncatedFile(doc) == [x \in {"<truncated>"} |-> doc]

\* what a write of doc that fails after open(path, 'w') leaves in the file
PartialFiles(doc) == {EmptyFile, TruncatedFile(doc)}

\* truth value of an Optional[str] held as a TLA+ string
TruthyStr(s) == s # NoneStr /\ s # ""
\* truth value of an Optional[str] held as a sequence of characters
TruthySeq(s) == s # NoneSeq /\ s # <<>>
\* a check that takes only None for a failed load
TruthyDict_only_none(d) == d # NoneDict

\* truth value of an Optional[dict]
TruthyDict(d) == d # NoneDict /\ DOMAIN d # {}

\* values whose Python type differs between the scripts carry their type
PyStr(s) == [type |-> "str", val |-> s]
PyDict(d) == [type |-> "dict", val |-> d]

\* "fmt" % arg
Format(fmt, arg) == [fmt |-> fmt, arg |-> arg]

\* d[k] = v
SetItem(d, k, v) == (k :> v) @@ d

----------------------------------------------------------------------------
(* str and os.path operations *)

endswith(s, suffix) ==
    /\ Len(s) >= Len(suffix)
    /\ SubSeq(s, Len(s) - Len(suffix) + 1, Len(s)) = suffix

\* s.rfind(c), 1-based, 0 when c does not occur
rfind(s, c) ==
    LET hits == {i \in 1..Len(s) : s[i] = c}
    IN  IF hits = {} THEN 0 ELSE CHOOSE i \in hits : \A j \in hits : j <= i

\* s.find(c), 1-based, 0 when c does not occur
find(s, c) ==
    LET hits == {i \in 1..Len(s) : s[i] = c}
    IN  IF hits = {} THEN 0 ELSE CHOOSE i \in hits : \A j \in hits : i <= j

basename(p) == SubSeq(p, rfind(p, "/") + 1, Len(p))

\* os.path.splitext: the extension starts at the last dot of the last path
\* component, unless only dots precede it in that component
splitext(p) ==
    LET sepIndex == rfind(p, "/")
        dotIndex == rfind(p, ".")
    IN  IF /\ dotIndex > sepIndex
           /\ \E i \in (sepIndex + 1)..(dotIndex - 1) : p[i] # "."
        THEN <<SubSeq(p, 1, dotIndex - 1), SubSeq(p, dotIndex, Len(p))>>
        ELSE <<p, <<>> >>

\* os.path.join(a, b)
join(a, b) ==
    IF b # <<>> /\ b[1] = "/" THEN b
    ELSE IF a = <<>> \/ a[Len(a)] = "/" THEN a \o b
    ELSE a \o <<"/">> \o b

RECURSIVE split(_, _)
\* s.split(sep) for a one-character separator
split(s, sep) ==
    LET i == find(s, sep)
    IN  IF i = 0 THEN <<s>>
        ELSE <<SubSeq(s, 1, i - 1)>> \o split(SubSeq(s, i + 1, Len(s)), sep)

----------------------------------------------------------------------------
(* Inputs *)

S_left_bin == <<"_", "l", "e", "f", "t", ".", "b", "i", "n">>
S_right_bin == <<"_", "r", "i", "g", "h", "t", ".", "b", "i", "n">>
S_cleaned == <<"_", "c", "l", "e", "a", "n", "e", "d">>
S_tif == <<".", "t", "i", "f">>
S_output == <<"o", "u", "t", "p", "u", "t">>
S_result_json == <<"r", "e", "s", "u", "l", "t", ".", "j", "s", "o", "n">>

\* bin_file arguments: d/x_left.bin, x_right.bin, x.bin, x_left.tif
BinFiles ==
    { <<"d", "/", "x">> \o S_left_bin,
      <<"x">> \o S_right_bin,
      <<"x", ".", "b", "i", "n">>,
      <<"x", "_", "l", "e", "f", "t">> \o S_tif }

\* metadata file arguments: d/m.json, m
MetadataFiles == { <<"d", "/", "m", ".", "j", "s", "o", "n">>, <<"m">> }

\* working_space arguments: w, /w/
WorkingSpaces == { <<"w">>, <<"/", "w", "/">> }

SensorNames == {"Full Field", "stereoTop"}
UserIds == {NoneStr, "", "u1"}
DataTypes == {"cultivars", "experiments", "sites", "traits", "bogus"}
Dates == {NoneStr, "", "2018-05-01"}

OptChars == {"a", "b", "=", ","}

\* every option string of at most MaxOptLen characters, and no --options
OptionStrings ==
    {NoneSeq} \cup UNION {[1..n -> OptChars] : n \in 0..MaxOptLen}

----------------------------------------------------------------------------
(* What the opaque libraries can return *)

RawDoc == [lemnatec_measurement_metadata |-> "raw"]

\* what do_load_json_file can find: None stands for a missing or invalid
\* file, else the document
LoadedDocs ==
    { NoneDict, EmptyDict, RawDoc, [content |-> RawDoc],
      ("@context" :> "ctx") @@ [content |-> RawDoc],
      ("@context" :> "ctx") @@ RawDoc }

\* do_clean_metadata
CleanedDocs == { [terraref_cleaned_metadata |-> TRUE],
                 [terraref_cleaned_metadata |-> TRUE, sensor_variable_metadata |-> "v"] }

TimestampParts ==
    { EmptyDict,
      [timestamp |-> "2018-05-01T10:00:00"],
      [timestamp |-> ""],
      [gantry_variable_metadata |-> [datetime |-> "2018-05-01T11:00:00"]],
      [gantry_variable_metadata |-> [position |-> "p"]],
      [timestamp |-> "", gantry_variable_metadata |-> [datetime |-> "2018-05-01T11:00:00"]] }

SpatialParts ==
    { EmptyDict,
      [spatial_metadata |-> [left |-> [bounding_box |-> "bbL"],
                             right |-> [bounding_box |-> "bbR"]]],
      [spatial_metadata |-> [left |-> [bounding_box |-> "bbL"]]],
      [spatial_metadata |-> [left |-> [centroid |-> "c"],
                             right |-> [bounding_box |-> "bbR"]]] }

\* do_get_terraref_metadata(parse_json, EXTRACTOR_NAME)
TerraFullDocs ==
    {t @@ s : t \in TimestampParts, s \in SpatialParts}
      \cup {[content |-> t] @@ s : t \in TimestampParts, s \in SpatialParts}

\* do_get_terraref_metadata(parse_json)
TerraTrimDocs == { EmptyDict, [terraref_cleaned_metadata |-> TRUE] }

\* third component of do_get_season_and_experiment
Experiments == { NoneStr, "exp1" }

\* the fetch functions of terrautils.betydb
FetchedData == { "[]", "rows" }

----------------------------------------------------------------------------
(* Program constants *)

EXTRACTOR_NAME == "stereoTop"
EXTRCTOR_VERSION == "1.0"
SKIP_SENSORS == {"Full Field"}
BETYDB_URL == "https://terraref.ncsa.illinois.edu/bety/"
BETYDB_KEY == "9999999999999999999999999999999999999999"
CleanerContext ==
    << "https://clowder.ncsa.illinois.edu/contexts/metadata.jsonld",
       [x \in {"@vocab"} |-> "https://terraref.ncsa.illinois.edu/metadata/uamac#"] >>

----------------------------------------------------------------------------
(* Initial state: a script has been started with its command line *)

NoExc == [fn |-> "", type |-> ""]

BinArgs ==
    [bin_file : BinFiles, metadata_file : MetadataFiles,
     working_space : WorkingSpaces]

CleanerArgs ==
    [sensor : SensorNames, filename : MetadataFiles,
     working_space : WorkingSpaces, userid : UserIds]

FetchArgs == [options : OptionStrings, datatype : DataTypes, date : Dates]

Init ==
    /\ util \in {"bin2tif", "metadata_cleaner", "fetch_bety_data"}
    /\ args \in CASE util = "bin2tif" -> BinArgs
                  [] util = "metadata_cleaner" -> CleanerArgs
                  [] OTHER -> FetchArgs
    /\ json_file \in IF util = "fetch_bety_data" THEN {NoneDict} ELSE LoadedDocs
    /\ pc = "parse_args"
    /\ frame = EmptyDict
    /\ result = EmptyDict
    /\ fs = EmptyDict
    /\ environ = EmptyDict
    /\ stdout = <<>>
    /\ calls = <<>>
    /\ exc = NoExc
    /\ handler_logs = 0
    /\ exit_status = <<>>

----------------------------------------------------------------------------
(* Steps shared by the scripts *)

\* a library function is called with the given arguments
Called(fn, a) == calls' = Append(calls, [fn |-> fn, args |-> a])

\* an exception leaves the running function
Raise(fn, type) ==
    /\ exc' = [fn |-> fn, type |-> type]
    /\ pc' = "raised"

\* the help argparse prints for -h / --help
HelpText == "usage"

\* args = parser.parse_args(): the command line is accepted and gives args,
\* or it asks for help (-h, --help) and argparse prints the help to stdout
\* and raises SystemExit(0), or it has an unknown option or lacks an
\* argument and argparse reports the usage error to stderr and raises
\* SystemExit(2). SystemExit is no Exception: the top level handler does not
\* catch it, nothing is logged and the interpreter exits with its code.
parse_args ==
    /\ pc = "parse_args"
    /\ \/ /\ pc' = "start"
          /\ UNCHANGED <<stdout, exc, exit_status>>
       \/ /\ exc' = [fn |-> "parse_args", type |-> "SystemExit"]
          /\ \/ /\ stdout' = Append(stdout, HelpText)
                /\ exit_status' = <<0>>
             \/ /\ exit_status' = <<2>>
                /\ UNCHANGED stdout
          /\ pc' = "system_exit"
    /\ UNCHANGED <<util, json_file, args, frame, result, fs, environ, calls,
                   handler_logs>>

\* the start of logging
do_setup_logging ==
    /\ pc = "start"
    /\ Called("do_setup_logging", <<>>)
    /\ \/ pc' = "do_work" /\ exc' = exc
       \/ Raise("do_setup_logging", "Exception")
    /\ UNCHANGED <<util, json_file, args, frame, result, fs, environ, stdout,
                   handler_logs, exit_status>>

----------------------------------------------------------------------------
(* fetch_bety_data.py *)

RECURSIVE parse_entries(_, _)
\* the loop over the comma separated options: the dictionary built, or
\* raised when unpacking one_option.split('=') into two names fails
parse_entries(options, opts) ==
    IF options = <<>> THEN [raised |-> FALSE, opts |-> opts]
    ELSE LET one_option == Head(options)
         IN  IF find(one_option, "=") # 0
             THEN LET parts == split(one_option, "=")
                  IN  IF Len(parts) # 2
                      THEN [raised |-> TRUE, opts |-> opts]
                      ELSE IF parts[1] # <<>>
                      THEN parse_entries(Tail(options),
                                         SetItem(opts, parts[1], parts[2]))
                      ELSE parse_entries(Tail(options), opts)
             ELSE parse_entries(Tail(options), SetItem(opts, one_option, <<>>))

\* opts as built from args.options
parse_options(options) ==
    IF TruthySeq(options)
    THEN parse_entries(split(options, ","), EmptyDict)
    ELSE [raised |-> FALSE, opts |-> EmptyDict]

\* the keys of type_map
type_map_keys == {"cultivars", "experiments", "sites", "traits"}

\* the call type_map[datatype] makes: library function and arguments; the
\* positional and fixed keyword arguments are kept apart from **opts (the
\* option names of OptChars cannot collide with limit or associations_mode)
type_map(datatype, date, opts) ==
    CASE datatype = "cultivars" ->
           [fn |-> "get_cultivars",
            args |-> [pos |-> <<>>, kw |-> [limit |-> "none"], opts |-> opts]]
      [] datatype = "experiments" ->
           [fn |-> "get_experiments",
            args |-> [pos |-> <<>>,
                      kw |-> [associations_mode |-> "full_info", limit |-> "none"],
                      opts |-> opts]]
      [] datatype = "sites" ->
           [fn |-> "get_sites",
            args |-> [pos |-> <<date>>, kw |-> EmptyDict, opts |-> opts]]
      [] datatype = "traits" ->
           [fn |-> "get_traits",
            args |-> [pos |-> <<>>, kw |-> [limit |-> "none"], opts |-> opts]]

\* the check that "sites" comes with a date, then the environment
fetch_check_date ==
    /\ pc = "do_work" /\ util = "fetch_bety_data"
    /\ IF args.datatype = "sites" /\ ~TruthyStr(args.date)
       THEN /\ result' = [error |-> PyStr("A date must be specified with the datatype parameter of \"sites\""),
                          code |-> -1]
            /\ frame' = SetItem(frame, "RETURN_CODE", -1)
            /\ pc' = "sys_exit"
            /\ UNCHANGED environ
       ELSE /\ environ' = [BETYDB_URL |-> BETYDB_URL, BETYDB_KEY |-> BETYDB_KEY]
            /\ pc' = "options"
            /\ UNCHANGED <<result, frame>>
    /\ UNCHANGED <<util, json_file, args, fs, stdout, calls, exc, handler_logs, exit_status>>

\* the parsing of --options
fetch_parse_options ==
    /\ pc = "options" /\ util = "fetch_bety_data"
    /\ LET parsed == parse_options(args.options)
       IN  IF parsed.raised
           THEN /\ Raise("split", "ValueError")
                /\ UNCHANGED frame
           ELSE /\ frame' = SetItem(frame, "opts", parsed.opts)
                /\ pc' = "fetch"
                /\ UNCHANGED exc
    /\ UNCHANGED <<util, json_file, args, result, fs, environ, stdout, calls,
                   handler_logs, exit_status>>

\* the fetch through type_map, the printing and the return code
fetch_data ==
    /\ pc = "fetch" /\ util = "fetch_bety_data"
    /\ IF args.datatype \in type_map_keys
       THEN LET call == type_map(args.datatype, args.date, frame["opts"])
            IN  /\ Called(call.fn, call.args)
                /\ \/ \E data \in FetchedData :
                        /\ stdout' = Append(stdout, data)
                        /\ frame' = SetItem(SetItem(frame, "data", data),
                                            "RETURN_CODE", 0)
                        /\ pc' = "sys_exit"
                        /\ UNCHANGED exc
                   \/ /\ Raise(call.fn, "Exception")
                      /\ UNCHANGED <<stdout, frame>>
                /\ UNCHANGED result
       ELSE /\ result' = [error |-> PyStr(Format("Invalid datatype parameter specifed: '%s'. Stopping processing",
                                                 args.datatype)),
                          code |-> -2]
            /\ frame' = SetItem(frame, "RETURN_CODE", -2)
            /\ pc' = "sys_exit"
            /\ UNCHANGED <<stdout, calls, exc>>
    /\ UNCHANGED <<util, json_file, args, fs, environ, handler_logs, exit_status>>

\* the exit status the operating system keeps of sys.exit(code)
posix_status(code) == code % 256

\* sys.exit(RETURN_CODE)
fetch_sys_exit ==
    /\ pc = "sys_exit" /\ util = "fetch_bety_data"
    /\ exit_status' = <<posix_status(frame["RETURN_CODE"])>>
    /\ pc' = "done"
    /\ UNCHANGED <<util, json_file, args, frame, result, fs, environ, stdout, calls, exc,
                   handler_logs>>

----------------------------------------------------------------------------
(* metadata_cleaner.py *)

\* the keyword arguments clean_metadata is called with; userid is passed
\* only when given, and defaults to None
cleaner_args_to_params(a) ==
    [sensor |-> a.sensor, filename |-> a.filename,
     working_space |-> a.working_space,
     userid |-> IF TruthyStr(a.userid) THEN a.userid ELSE NoneStr]

\* the base metadata: the content of already cleaned metadata, else the
\* whole document
cleaner_md_json(loaded_json) ==
    IF "@context" \in DOMAIN loaded_json /\ "content" \in DOMAIN loaded_json
    THEN loaded_json["content"]
    ELSE loaded_json

\* a document that names the user without asking whether there is one
format_md_any_userid(md_json, userid) ==
    ("@context" :> CleanerContext)
      @@ [content |-> md_json,
          agent |-> ("@type" :> "cat:user") @@ [user_id |-> userid]]

\* the JSON-LD document built around the cleaned metadata
format_md(md_json, userid) ==
    ("@context" :> CleanerContext)
      @@ [content |-> md_json,
          agent |-> IF TruthyStr(userid)
                    THEN ("@type" :> "cat:user") @@ [user_id |-> userid]
                    ELSE ("@type" :> "cat:user") @@ EmptyDict]

\* <working_space>/<stem>_cleaned<ext>
cleaned_path(filename, working_space) ==
    LET filename_parts == splitext(basename(filename))
    IN  join(working_space, filename_parts[1] \o S_cleaned \o filename_parts[2])

\* clean_metadata up to the choice of the metadata to clean
clean_metadata_load ==
    /\ pc = "do_work" /\ util = "metadata_cleaner"
    /\ LET p == cleaner_args_to_params(args)
       IN  \/ /\ p.sensor \in SKIP_SENSORS
              /\ result' = [code |-> 0,
                            message |-> PyStr(Format("Sensor '%s' does not have metadata that can be cleaned",
                                                     p.sensor))]
              /\ pc' = "save_result"
              /\ UNCHANGED <<frame, calls>>
           \/ /\ p.sensor \notin SKIP_SENSORS
              /\ Called("do_load_json_file", <<p.filename>>)
              /\ LET loaded_json == json_file
                 IN  IF ~TruthyDict(loaded_json)
                     THEN /\ result' = [error |-> PyDict([message |-> PyStr(Format("Unable to load JSON from specified file: '%s'",
                                                                                   p.filename))]),
                                        code |-> -1]
                          /\ frame' = [loaded_json |-> loaded_json]
                          /\ pc' = "save_result"
                     ELSE /\ frame' = [loaded_json |-> loaded_json,
                                       md_json |-> cleaner_md_json(loaded_json)]
                          /\ pc' = "clean"
                          /\ UNCHANGED result
    /\ UNCHANGED <<util, json_file, args, fs, environ, stdout, exc, handler_logs,
                   exit_status>>

\* the cleaning by the library and the JSON-LD document
clean_metadata_clean ==
    /\ pc = "clean" /\ util = "metadata_cleaner"
    /\ LET p == cleaner_args_to_params(args)
       IN  /\ Called("do_clean_metadata", <<frame["md_json"], p.sensor>>)
           /\ \/ \E cleaned \in CleanedDocs :
                   /\ frame' = SetItem(SetItem(frame, "md_json", cleaned),
                                       "format_md", format_md(cleaned, p.userid))
                   /\ pc' = "write"
                   /\ UNCHANGED exc
              \/ /\ Raise("do_clean_metadata", "Exception")
                 /\ UNCHANGED frame
    /\ UNCHANGED <<util, json_file, args, result, fs, environ, stdout, handler_logs,
                   exit_status>>

\* the writing of the cleaned metadata and the result; the file cannot be
\* opened, or it is opened and the document cannot be written to its end, or
\* the document is written
clean_metadata_write ==
    /\ pc = "write" /\ util = "metadata_cleaner"
    /\ LET p == cleaner_args_to_params(args)
           new_path == cleaned_path(p.filename, p.working_space)
       IN  \/ /\ fs' = SetItem(fs, new_path, frame["format_md"])
              /\ result' = [file |-> <<[path |-> new_path, key |-> p.sensor]>>,
                            code |-> 0]
              /\ pc' = "save_result"
              /\ UNCHANGED exc
           \/ /\ Raise("open", "OSError")
              /\ \/ UNCHANGED fs
                 \/ \E left \in PartialFiles(frame["format_md"]) :
                       fs' = SetItem(fs, new_path, left)
              /\ UNCHANGED result
    /\ UNCHANGED <<util, json_file, args, frame, environ, stdout, calls, handler_logs,
                   exit_status>>

----------------------------------------------------------------------------
(* bin2tif.py *)

\* the keyword arguments bin2tif is called with
bin2tif_args_to_params(a) ==
    [filename |-> a.bin_file, metadata |-> a.metadata_file,
     working_space |-> a.working_space]

\* a lookup that falls back on the gantry datetime for an empty timestamp too
get_metadata_timestamp_fallback(metadata) ==
    LET check_md == IF "content" \in DOMAIN metadata
                    THEN metadata["content"]
                    ELSE metadata
    IN  IF "timestamp" \in DOMAIN check_md /\ check_md["timestamp"] # ""
        THEN check_md["timestamp"]
        ELSE IF /\ "gantry_variable_metadata" \in DOMAIN check_md
                /\ "datetime" \in DOMAIN check_md["gantry_variable_metadata"]
             THEN check_md["gantry_variable_metadata"]["datetime"]
             ELSE NoneStr

get_metadata_timestamp(metadata) ==
    LET check_md == IF "content" \in DOMAIN metadata
                    THEN metadata["content"]
                    ELSE metadata
    IN  IF "timestamp" \notin DOMAIN check_md
        THEN IF /\ "gantry_variable_metadata" \in DOMAIN check_md
                /\ "datetime" \in DOMAIN check_md["gantry_variable_metadata"]
             THEN check_md["gantry_variable_metadata"]["datetime"]
             ELSE NoneStr
        ELSE check_md["timestamp"]

\* a check of the extension alone
bin_type_of_any_bin(filename) ==
    IF endswith(filename, <<".", "b", "i", "n">>) THEN "left" ELSE NoneStr

\* 'left', 'right' or None, from the end of the file name
bin_type_of(filename) ==
    IF endswith(filename, S_left_bin) THEN "left"
    ELSE IF endswith(filename, S_right_bin) THEN "right"
    ELSE NoneStr

\* whether terra_md_full['spatial_metadata'][bin_type]['bounding_box']
\* is there (a KeyError otherwise)
has_bounding_box(terra_md_full, bin_type) ==
    /\ "spatial_metadata" \in DOMAIN terra_md_full
    /\ bin_type \in DOMAIN terra_md_full["spatial_metadata"]
    /\ "bounding_box" \in DOMAIN terra_md_full["spatial_metadata"][bin_type]

\* a name that keeps the extension of the bin file before .tif
tiff_filename_of_appended(filename) == basename(filename) \o S_tif

\* <name of the bin file with its extension replaced by .tif>
tiff_filename_of(filename) == splitext(basename(filename))[1] \o S_tif

\* the result of a failed check
error_result(msg, code) ==
    [error |-> PyDict([message |-> PyStr(msg)]), code |-> code]

\* the metadata file is loaded
bin2tif_load_json ==
    /\ pc = "do_work" /\ util = "bin2tif"
    /\ LET p == bin2tif_args_to_params(args)
       IN  /\ Called("do_load_json_file", <<p.metadata>>)
           /\ LET loaded_json == json_file
              IN IF ~TruthyDict(loaded_json)
                 THEN /\ result' = error_result(Format("Unable to load JSON from file '%s'",
                                                       p.metadata), -1)
                      /\ frame' = [loaded_json |-> loaded_json]
                      /\ pc' = "save_result"
                 ELSE /\ frame' = [loaded_json |-> loaded_json,
                                   parse_json |-> IF "content" \in DOMAIN loaded_json
                                                  THEN loaded_json["content"]
                                                  ELSE loaded_json]
                      /\ pc' = "terra_md_full"
                      /\ UNCHANGED result
    /\ UNCHANGED <<util, json_file, args, fs, environ, stdout, exc, handler_logs,
                   exit_status>>

\* the stereoTop metadata is looked up
bin2tif_terra_md_full ==
    /\ pc = "terra_md_full" /\ util = "bin2tif"
    /\ LET p == bin2tif_args_to_params(args)
       IN  /\ Called("do_get_terraref_metadata", <<frame["parse_json"], EXTRACTOR_NAME>>)
           /\ \/ \E terra_md_full \in TerraFullDocs :
                   /\ frame' = SetItem(frame, "terra_md_full", terra_md_full)
                   /\ IF ~TruthyDict(terra_md_full)
                      THEN /\ result' = error_result(Format("Unable to find stereoTop metadata in JSON file '%s'",
                                                            p.metadata), -2)
                           /\ pc' = "save_result"
                      ELSE /\ pc' = "timestamp"
                           /\ UNCHANGED result
                   /\ UNCHANGED exc
              \/ /\ Raise("do_get_terraref_metadata", "Exception")
                 /\ UNCHANGED <<frame, result>>
    /\ UNCHANGED <<util, json_file, args, fs, environ, stdout, handler_logs, exit_status>>

\* the timestamp is looked up, then the experiment
bin2tif_timestamp ==
    /\ pc = "timestamp" /\ util = "bin2tif"
    /\ LET p == bin2tif_args_to_params(args)
           timestamp == get_metadata_timestamp(frame["terra_md_full"])
       IN  \/ /\ ~TruthyStr(timestamp)
              /\ result' = error_result(Format("Unable to find timestamp in JSON file '%s'",
                                               p.filename), -3)
              /\ frame' = SetItem(frame, "timestamp", timestamp)
              /\ pc' = "save_result"
              /\ UNCHANGED <<calls, exc>>
           \/ /\ TruthyStr(timestamp)
              /\ Called("do_get_season_and_experiment",
                        <<timestamp, "stereoTop", frame["terra_md_full"]>>)
              /\ \/ \E updated_experiment \in Experiments :
                      /\ frame' = SetItem(SetItem(frame, "timestamp", timestamp),
                                          "updated_experiment", updated_experiment)
                      /\ pc' = "bin_type"
                      /\ UNCHANGED exc
                 \/ /\ Raise("do_get_season_and_experiment", "Exception")
                    /\ UNCHANGED frame
              /\ UNCHANGED result
    /\ UNCHANGED <<util, json_file, args, fs, environ, stdout, handler_logs, exit_status>>

\* the sensor is named, then the file name is checked
bin2tif_bin_type ==
    /\ pc = "bin_type" /\ util = "bin2tif"
    /\ LET p == bin2tif_args_to_params(args)
           bin_type == bin_type_of(p.filename)
           sensors == [fn |-> "Sensors",
                       args |-> [base |-> "", station |-> "ua-mac", sensor |-> "rgb_geotiff"]]
           get_display_name == [fn |-> "Sensors.get_display_name", args |-> <<>>]
       IN  \/ /\ calls' = Append(calls, sensors)
              /\ Raise("Sensors", "Exception")
              /\ UNCHANGED <<frame, result>>
           \/ /\ calls' = Append(Append(calls, sensors), get_display_name)
              /\ \/ /\ Raise("Sensors.get_display_name", "Exception")
                    /\ UNCHANGED <<frame, result>>
                 \/ /\ IF ~TruthyStr(bin_type)
                       THEN /\ result' = error_result(Format("Bin file must be a left or right file: '%s'",
                                                             p.filename), -4)
                            /\ pc' = "save_result"
                       ELSE /\ pc' = "terra_md_trim"
                            /\ UNCHANGED result
                    /\ frame' = SetItem(SetItem(frame, "leaf_name", "display_name"),
                                        "bin_type", bin_type)
                    /\ UNCHANGED exc
    /\ UNCHANGED <<util, json_file, args, fs, environ, stdout, handler_logs, exit_status>>

\* the trimmed metadata and the path of the geotiff
bin2tif_terra_md_trim ==
    /\ pc = "terra_md_trim" /\ util = "bin2tif"
    /\ LET p == bin2tif_args_to_params(args)
           tiff_filename == tiff_filename_of(p.filename)
       IN  /\ Called("do_get_terraref_metadata", <<frame["parse_json"]>>)
           /\ \/ \E trim \in TerraTrimDocs :
                   /\ frame' =
                        [k \in {"terra_md_trim", "tiff_filename", "tiff_path"} |->
                           CASE k = "terra_md_trim" ->
                                  [raw_data_source |-> p.filename]
                                    @@ (IF frame["updated_experiment"] # NoneStr
                                        THEN [experiment_metadata |-> frame["updated_experiment"]]
                                        ELSE EmptyDict)
                                    @@ trim
                             [] k = "tiff_filename" -> tiff_filename
                             [] OTHER -> join(p.working_space, tiff_filename)]
                        @@ frame
                   /\ pc' = "image_shape"
                   /\ UNCHANGED exc
              \/ /\ Raise("do_get_terraref_metadata", "Exception")
                 /\ UNCHANGED frame
    /\ UNCHANGED <<util, json_file, args, result, fs, environ, stdout, handler_logs,
                   exit_status>>

\* the try block: image shape and GPS bounds; a KeyError is caught
bin2tif_image_shape ==
    /\ pc = "image_shape" /\ util = "bin2tif"
    /\ LET terra_md_full == frame["terra_md_full"]
           bin_type == frame["bin_type"]
           shape_call == [fn |-> "get_image_shape",
                          args |-> <<terra_md_full, bin_type>>]
           bounds_call == [fn |-> "do_geojson_to_tuples",
                           args |-> <<terra_md_full["spatial_metadata"][bin_type]["bounding_box"]>>]
           spatial_error == error_result("Spatial metadata is not properly identified. Unable to continue", -5)
       IN  \/ /\ calls' = Append(calls, shape_call)
              /\ result' = spatial_error
              /\ pc' = "save_result"
              /\ UNCHANGED <<frame, exc>>
           \/ /\ calls' = Append(calls, shape_call)
              /\ Raise("get_image_shape", "Exception")
              /\ UNCHANGED <<frame, result>>
           \/ /\ ~has_bounding_box(terra_md_full, bin_type)
              /\ calls' = Append(calls, shape_call)
              /\ result' = spatial_error
              /\ pc' = "save_result"
              /\ UNCHANGED <<frame, exc>>
           \/ /\ has_bounding_box(terra_md_full, bin_type)
              /\ calls' = Append(Append(calls, shape_call), bounds_call)
              /\ \/ /\ frame' = SetItem(SetItem(frame, "bin_shape", "shape"),
                                        "gps_bounds_bin", "bounds")
                    /\ pc' = "process_raw"
                    /\ UNCHANGED <<result, exc>>
                 \/ /\ result' = spatial_error
                    /\ pc' = "save_result"
                    /\ UNCHANGED <<frame, exc>>
                 \/ /\ Raise("do_geojson_to_tuples", "Exception")
                    /\ UNCHANGED <<frame, result>>
    /\ UNCHANGED <<util, json_file, args, fs, environ, stdout, handler_logs, exit_status>>

\* the raw image is read
bin2tif_process_raw ==
    /\ pc = "process_raw" /\ util = "bin2tif"
    /\ LET p == bin2tif_args_to_params(args)
       IN  Called("process_raw", <<frame["bin_shape"], p.filename, NoneStr>>)
    /\ \/ /\ frame' = SetItem(frame, "new_image", "image")
          /\ pc' = "create_geotiff"
          /\ UNCHANGED exc
       \/ /\ Raise("process_raw", "Exception")
          /\ UNCHANGED frame
    /\ UNCHANGED <<util, json_file, args, result, fs, environ, stdout, handler_logs,
                   exit_status>>

\* the geotiff is written and the result set up
bin2tif_create_geotiff ==
    /\ pc = "create_geotiff" /\ util = "bin2tif"
    /\ LET tiff_path == frame["tiff_path"]
           new_md == ("@context" :> <<"https://clowder.ncsa.illinois.edu/contexts/metadata.jsonld">>)
                       @@ [content |-> [extractor_version |-> EXTRCTOR_VERSION]
                                         @@ frame["terra_md_trim"],
                           filename |-> frame["tiff_filename"],
                           agent |-> ("@type" :> "cat:extractor")
                                       @@ [version |-> EXTRCTOR_VERSION,
                                           name |-> EXTRACTOR_NAME]]
       IN  /\ Called("do_create_geotiff",
                     [image |-> frame["new_image"],
                      gps_bounds |-> frame["gps_bounds_bin"],
                      out_path |-> tiff_path])
           /\ \/ /\ fs' = SetItem(fs, tiff_path, [geotiff |-> frame["new_image"]])
                 /\ result' =
                      [container |->
                         << [name |-> frame["leaf_name"],
                             exists |-> FALSE,
                             metadata |-> [replace |-> TRUE, data |-> new_md],
                             file |-> <<[path |-> tiff_path, key |-> "rgb_geotiff"]>>] >>,
                       code |-> 0]
                 /\ pc' = "save_result"
                 /\ UNCHANGED exc
              \/ /\ Raise("do_create_geotiff", "Exception")
                 /\ UNCHANGED <<fs, result>>
    /\ UNCHANGED <<util, json_file, args, frame, environ, stdout, handler_logs,
                   exit_status>>

----------------------------------------------------------------------------
(* Steps shared by bin2tif.py and metadata_cleaner.py *)

\* <working_space>/output/result.json
result_json_path(working_space) ==
    join(join(working_space, S_output), S_result_json)

\* a do_work that saves the result of a successful run only
save_result_on_success ==
    /\ pc = "save_result" /\ util \in {"bin2tif", "metadata_cleaner"}
    /\ fs' = IF result.code = 0
             THEN SetItem(fs, result_json_path(args.working_space), result)
             ELSE fs
    /\ pc' = "script_end"
    /\ UNCHANGED <<util, json_file, args, frame, result, environ, stdout,
                   calls, exc, handler_logs, exit_status>>

\* do_work after the worker function returned: the result is saved. The
\* output folder cannot be made, or the file cannot be opened, or it is opened
\* and the document cannot be written to its end, or the document is written
save_result ==
    /\ pc = "save_result" /\ util \in {"bin2tif", "metadata_cleaner"}
    /\ \/ /\ fs' = SetItem(fs, result_json_path(args.working_space), result)
          /\ pc' = "script_end"
          /\ UNCHANGED exc
       \/ /\ Raise("makedirs", "OSError")
          /\ UNCHANGED fs
       \/ /\ Raise("open", "OSError")
          /\ \/ UNCHANGED fs
             \/ \E left \in PartialFiles(result) :
                   fs' = SetItem(fs, result_json_path(args.working_space), left)
    /\ UNCHANGED <<util, json_file, args, frame, result, environ, stdout, calls,
                   handler_logs, exit_status>>

\* the script ends after do_work returned: the interpreter exits with 0
script_end ==
    /\ pc = "script_end" /\ util \in {"bin2tif", "metadata_cleaner"}
    /\ exit_status' = <<0>>
    /\ pc' = "done"
    /\ UNCHANGED <<util, json_file, args, frame, result, fs, environ, stdout, calls, exc,
                   handler_logs>>

----------------------------------------------------------------------------
(* The end of a run *)

\* a handler that logs the exception and does not raise it again
top_level_handler_no_raise ==
    /\ pc = "raised"
    /\ handler_logs' = handler_logs + 1
    /\ exit_status' = <<0>>
    /\ pc' = "done"
    /\ UNCHANGED <<util, json_file, args, frame, result, fs, environ, stdout,
                   calls, exc>>

\* except Exception: logging.error(...); raise
top_level_handler ==
    /\ pc = "raised"
    /\ handler_logs' = handler_logs + 1
    /\ exit_status' = <<1>>
    /\ pc' = "crashed"
    /\ UNCHANGED <<util, json_file, args, frame, result, fs, environ, stdout, calls, exc>>

Next ==
    \/ parse_args
    \/ do_setup_logging
    \/ fetch_check_date
    \/ fetch_parse_options
    \/ fetch_data
    \/ fetch_sys_exit
    \/ bin2tif_load_json
    \/ bin2tif_terra_md_full
    \/ bin2tif_timestamp
    \/ bin2tif_bin_type
    \/ bin2tif_terra_md_trim
    \/ bin2tif_image_shape
    \/ bin2tif_process_raw
    \/ bin2tif_create_geotiff
    \/ clean_metadata_load
    \/ clean_metadata_clean
    \/ clean_metadata_write
    \/ save_result
    \/ script_end
    \/ top_level_handler

Spec == Init /\ [][Next]_vars

----------------------------------------------------------------------------
(* Points of a run the claims speak about *)

\* bin2tif() has returned its result to do_work
BinReturned == util = "bin2tif" /\ pc = "save_result"

\* clean_metadata() has returned its result to do_work
CleanReturned == util = "metadata_cleaner" /\ pc = "save_result"

\* do_work of fetch_bety_data has returned its code
FetchReturned == util = "fetch_bety_data" /\ pc = "sys_exit"

\* the run ended without an unhandled exception
Exited == pc = "done"

\* parse_args accepted the command line: the run has its arguments
Accepted == pc \notin {"parse_args", "system_exit"}

\* the code of the result the run computed
ComputedCode == IF "code" \in DOMAIN result THEN result.code ELSE 0

\* some file <...>/output/result.json with a code entry has been written
ResultJsonWritten ==
    \E path \in DOMAIN fs :
       /\ endswith(path, S_output \o <<"/">> \o S_result_json)
       /\ "code" \in DOMAIN fs[path]

\* the metadata file is missing, invalid or empty
NotLoadable == json_file = NoneDict \/ json_file = EmptyDict

BadSuffix ==
    /\ ~endswith(args.bin_file, S_left_bin)
    /\ ~endswith(args.bin_file, S_right_bin)

----------------------------------------------------------------------------
(* C1 *)

\* C1: every run that ends without an unhandled exception exits with the
\* code of its result as exit status: 0 for code 0, the same negative
\* number for a negative code.
C1_ExitStatusMirrorsCode ==
    Exited => exit_status = <<ComputedCode>>

----------------------------------------------------------------------------
(* C2 *)

\* C2 as stated: every run of each of the three utilities that ends without
\* an unhandled exception has written output/result.json with a code entry.
C2_EveryUtilityWritesResultJson ==
    Exited => ResultJsonWritten

\* C2 amended: once do_work of bin2tif or metadata_cleaner has saved, and
\* until the process has exited, <working_space>/output/result.json holds the
\* result with its code, on success and on handled errors alike;
\* fetch_bety_data writes no file at all, and neither does a run that ends
\* in parse_args, with the help printed or a usage error reported. A run
\* that a failure of the save ended was ended by an exception no script
\* catches.
C2_WorkersWriteResultJson ==
    /\ (pc \in {"script_end", "done"} /\ util \in {"bin2tif", "metadata_cleaner"})
         => /\ result_json_path(args.working_space) \in DOMAIN fs
            /\ "code" \in DOMAIN fs[result_json_path(args.working_space)]
            /\ fs[result_json_path(args.working_space)].code = result.code
    /\ util = "fetch_bety_data" => fs = EmptyDict
    /\ pc = "system_exit" => fs = EmptyDict

\* a bin2tif run that failed its file name check has exited with the
\* result written
C2_Witness ==
    /\ Exited /\ util = "bin2tif" /\ result.code = -4
    /\ args.working_space = <<"w">>
    /\ <<"w", "/">> \o S_output \o <<"/">> \o S_result_json \in DOMAIN fs

----------------------------------------------------------------------------
(* C3 *)

\* C3 as stated: a bin file name ending in neither _left.bin nor _right.bin
\* gives code -4 whatever the metadata file holds.
C3_BadSuffixAlwaysMinus4 ==
    (BinReturned /\ BadSuffix) => result.code = -4

\* C3 amended: with such a file name bin2tif returns -4 when the metadata
\* file loaded and the stereoTop metadata and the timestamp were found,
\* whatever the spatial metadata; when one of these three checks fails it
\* returns that check's code -1, -2 or -3 instead.
C3_BadSuffixMinus4AfterEarlierChecks ==
    (BinReturned /\ BadSuffix) =>
       IF NotLoadable THEN result.code = -1
       ELSE IF ~TruthyDict(frame["terra_md_full"]) THEN result.code = -2
       ELSE IF ~TruthyStr(get_metadata_timestamp(frame["terra_md_full"]))
            THEN result.code = -3
       ELSE result.code = -4

\* x.bin was rejected with -4 although its metadata has the bounding boxes
C3_Witness ==
    /\ BinReturned /\ BadSuffix /\ result.code = -4
    /\ "spatial_metadata" \in DOMAIN frame["terra_md_full"]
    /\ "content" \in DOMAIN json_file

----------------------------------------------------------------------------
(* C4 *)

\* C4 as stated: metadata that is missing, empty or not loadable gives code
\* -1 for every sensor, the sensors of SKIP_SENSORS included.
C4_MissingMetadataMinus1AnySensor ==
    (CleanReturned /\ NotLoadable) => result.code = -1

\* C4 amended: such metadata gives code -1 with an error message for every
\* sensor that is not in SKIP_SENSORS; for a sensor of SKIP_SENSORS the file
\* is not read and the code is 0.
C4_MissingMetadataMinus1UnlessSkipped ==
    (CleanReturned /\ NotLoadable) =>
       IF args.sensor = "Full Field"
       THEN result.code = 0 /\ Len(calls) = 1
       ELSE /\ result.code = -1
            /\ "error" \in DOMAIN result
            /\ fs = EmptyDict

\* the file of a stereoTop run held an empty document and the run got -1
C4_Witness ==
    /\ CleanReturned /\ args.sensor = "stereoTop"
    /\ json_file = EmptyDict
    /\ result.code = -1

----------------------------------------------------------------------------
(* C5 *)

\* the calls of get_sites made so far
SitesCalls == {i \in DOMAIN calls : calls[i].fn = "get_sites"}

\* the calls of the BETYdb fetch functions made so far
FetchCalls ==
    {i \in DOMAIN calls :
       calls[i].fn \in {"get_cultivars", "get_experiments", "get_sites", "get_traits"}}

\* C5: a run whose command line gives the datatype "sites" without a date
\* ends with code -1 and an error message, with no fetch, no
\* BETYDB_URL/BETYDB_KEY set and nothing printed; "sites" with a date calls
\* get_sites exactly once, with that date.
C5_SitesNeedDate ==
    (util = "fetch_bety_data" /\ Accepted /\ args.datatype = "sites") =>
       IF ~TruthyStr(args.date)
       THEN /\ FetchCalls = {} /\ environ = EmptyDict /\ stdout = <<>>
            /\ (FetchReturned \/ Exited) =>
                  (ComputedCode = -1 /\ "error" \in DOMAIN result)
       ELSE (pc \in {"done", "crashed"} /\ exc.fn # "do_setup_logging") =>
               /\ Cardinality(SitesCalls) = 1
               /\ \A i \in SitesCalls : calls[i].args.pos = <<args.date>>

\* get_sites was called once with the date and its data printed
C5_Witness ==
    /\ util = "fetch_bety_data" /\ args.datatype = "sites"
    /\ args.date = "2018-05-01" /\ Exited
    /\ Cardinality(SitesCalls) = 1
    /\ Len(stdout) = 1

----------------------------------------------------------------------------
(* C6 *)

\* clean_metadata() was left by an exception: do_clean_metadata raised, or
\* the writing of the document did
CleanRaised ==
    /\ util = "metadata_cleaner" /\ pc \in {"raised", "crashed"}
    /\ exc.fn \in {"do_clean_metadata", "open"}
    /\ result = EmptyDict

\* the call of clean_metadata() is over
CleanCalled == CleanReturned \/ CleanRaised

\* <working_space>/<stem>_cleaned<ext> for the file names and the working
\* spaces of the runs: m.json gives m_cleaned.json and m gives m_cleaned
ExpectedCleanedPath ==
    LET dir == IF args.working_space = <<"w">>
               THEN <<"w", "/">>
               ELSE <<"/", "w", "/">>
        name == IF args.filename = <<"m">>
                THEN <<"m", "_", "c", "l", "e", "a", "n", "e", "d">>
                ELSE <<"m", "_", "c", "l", "e", "a", "n", "e", "d",
                       ".", "j", "s", "o", "n">>
    IN  dir \o name

\* the call returned the result and wrote the document the claim describes,
\* with a user_id or without one
CleanedDocument(with_user_id) ==
    /\ CleanReturned
    /\ result.code = 0
    /\ "file" \in DOMAIN result
    /\ result.file = <<[path |-> ExpectedCleanedPath, key |-> args.sensor]>>
    /\ ExpectedCleanedPath \in DOMAIN fs
    /\ LET doc == fs[ExpectedCleanedPath]
       IN  /\ DOMAIN doc = {"@context", "content", "agent"}
           /\ doc["@context"][1] = "https://clowder.ncsa.illinois.edu/contexts/metadata.jsonld"
           /\ doc["@context"][2]["@vocab"] = "https://terraref.ncsa.illinois.edu/metadata/uamac#"
           /\ Len(doc["@context"]) = 2
           /\ doc.content = frame["md_json"]
           /\ doc.content \in CleanedDocs
           /\ calls[Len(calls)].fn = "do_clean_metadata"
           /\ "user_id" \in DOMAIN doc.agent <=> with_user_id
           /\ "user_id" \in DOMAIN doc.agent => doc.agent.user_id = args.userid

\* C6 as stated: for every sensor, every call of clean_metadata with metadata
\* that loads as non-empty JSON returns code 0 with a file entry and has
\* written the JSON-LD document, with a user_id exactly when the command line
\* gave a userid.
C6_CleanedDocumentAnySensor ==
    (CleanCalled /\ ~NotLoadable) => CleanedDocument(args.userid # NoneStr)

\* C6 amended: for a sensor of SKIP_SENSORS the call returns code 0 with a
\* message, without a file entry and without writing a document. For any
\* other sensor the call either is left by the exception that
\* do_clean_metadata or the writing of the document raised, with no result
\* and the document absent or incomplete, or it returns as stated, user_id
\* being present exactly when a non-empty userid was given.
C6_CleanedDocumentUnlessSkipped ==
    (CleanCalled /\ ~NotLoadable) =>
       IF args.sensor = "Full Field"
       THEN /\ CleanReturned
            /\ result.code = 0
            /\ DOMAIN result = {"code", "message"}
            /\ fs = EmptyDict
       ELSE IF CleanRaised
       THEN /\ calls[Len(calls)].fn = "do_clean_metadata"
            /\ DOMAIN fs \subseteq {ExpectedCleanedPath}
            /\ ExpectedCleanedPath \in DOMAIN fs =>
                  /\ exc.fn = "open"
                  /\ fs[ExpectedCleanedPath] \in PartialFiles(frame["format_md"])
       ELSE CleanedDocument(args.userid \notin {NoneStr, ""})

\* the three kinds of call for which C6 as stated fails: a sensor of
\* SKIP_SENSORS, a call left by an exception, an empty userid
C6_SkippedSensor ==
    CleanReturned /\ ~NotLoadable /\ args.sensor = "Full Field"

C6_LeftByException ==
    /\ CleanRaised /\ ~NotLoadable /\ exc.fn = "open"
    /\ ExpectedCleanedPath \in DOMAIN fs
    /\ fs[ExpectedCleanedPath] = TruncatedFile(frame["format_md"])

C6_EmptyUserid ==
    /\ CleanReturned /\ ~NotLoadable /\ args.sensor = "stereoTop"
    /\ args.userid = "" /\ result.code = 0
    /\ "user_id" \notin DOMAIN fs[ExpectedCleanedPath].agent

\* d/m.json was cleaned for user u1 into w/m_cleaned.json
C6_Witness ==
    /\ CleanReturned /\ args.sensor = "stereoTop" /\ args.userid = "u1"
    /\ args.working_space = <<"w">> /\ "content" \in DOMAIN json_file
    /\ <<"w", "/", "m">> \o S_cleaned \o <<".", "j", "s", "o", "n">> \in DOMAIN fs
    /\ result.code = 0

----------------------------------------------------------------------------
(* C7 *)

\* C7: every result envelope has an integer code that is 0 exactly when
\* there is no error entry; a negative code comes with an error entry that
\* is an object with a string message; container and file entries appear
\* only with code 0.
C7_EnvelopeShape ==
    (BinReturned \/ CleanReturned \/ FetchReturned) =>
       /\ "code" \in DOMAIN result
       /\ result.code = 0 <=> "error" \notin DOMAIN result
       /\ result.code <= 0
       /\ result.code < 0 =>
             /\ result.error.type = "dict"
             /\ "message" \in DOMAIN result.error.val
             /\ result.error.val.message.type = "str"
       /\ (DOMAIN result \cap {"container", "file"} # {}) => result.code = 0

----------------------------------------------------------------------------
(* C8 *)

\* the input is one the claim lists: JSON missing or invalid, a required
\* metadata field missing, or an unsupported input type
BadInput ==
    CASE util = "bin2tif" ->
           \/ NotLoadable
           \/ BadSuffix
           \/ /\ "terra_md_full" \in DOMAIN frame
              /\ \/ ~TruthyDict(frame["terra_md_full"])
                 \/ ~TruthyStr(get_metadata_timestamp(frame["terra_md_full"]))
                 \/ ~has_bounding_box(frame["terra_md_full"],
                                      IF endswith(args.bin_file, S_left_bin)
                                      THEN "left" ELSE "right")
      [] util = "metadata_cleaner" -> NotLoadable
      [] OTHER -> args.datatype \notin {"cultivars", "experiments", "sites", "traits"}

\* C8: on such an input no exception of the script's own making leaves
\* do_work, and the run ends with a negative code and an error message in
\* its result.
C8_BadInputsAreHandled ==
    BadInput =>
       /\ exc.fn # "split"
       /\ Exited => (ComputedCode < 0 /\ "error" \in DOMAIN result)

----------------------------------------------------------------------------
(* C9 *)

\* the calls made so far of the function that raised, with the arguments of
\* its last call
CallsLikeLast ==
    {i \in DOMAIN calls :
       /\ calls[i].fn = calls[Len(calls)].fn
       /\ calls[i].args = calls[Len(calls)].args}

\* result.json holds no result: it is absent, or the save itself is what
\* failed and left the file empty or with a text that ends too early
NoResultDocument ==
    IF util = "fetch_bety_data" THEN fs = EmptyDict
    ELSE LET path == result_json_path(args.working_space)
         IN  path \in DOMAIN fs =>
                /\ exc.fn = "open" /\ "code" \in DOMAIN result
                /\ fs[path] \in PartialFiles(result)

\* what holds while and after an exception is in flight: the failed call was
\* the last call and was made once with its arguments (split, open, makedirs
\* and parse_args are not among the calls recorded)
C9_NothingAfterException ==
    /\ exc # NoExc <=> pc \in {"raised", "crashed", "system_exit"}
    /\ exc # NoExc =>
          /\ NoResultDocument
          /\ exc.fn \notin {"split", "open", "makedirs", "parse_args"} =>
                /\ calls[Len(calls)].fn = exc.fn
                /\ Cardinality(CallsLikeLast) = 1

C9_Step ==
    /\ pc = "raised" =>
          /\ pc' = "crashed"
          /\ handler_logs' = handler_logs + 1
          /\ UNCHANGED <<frame, result, fs, environ, stdout, calls, exc>>
    /\ pc \in {"crashed", "system_exit"} => UNCHANGED vars

\* every exception is logged once the run has ended, and the exit status is
\* not 0
C9_StateAsStated ==
    /\ handler_logs = IF exc # NoExc /\ exit_status # <<>> THEN 1 ELSE 0
    /\ (exc # NoExc /\ exit_status # <<>>) => exit_status # <<0>>
    /\ C9_NothingAfterException

\* C9 as stated: every exception a library call raised and no script catches
\* is logged exactly once by the top level handler and raised again, so that
\* the process ends abnormally; the call that failed is not made again, and
\* nothing else runs after the exception.
C9_EveryExceptionLogged ==
    []C9_StateAsStated /\ [][C9_Step]_vars

\* an Exception is logged once the handler has run, and the exit status is
\* then 1; the SystemExit of parse_args is not logged, and the exit status
\* is then 0 with the help printed, or 2 with nothing printed, with nothing
\* called or written
C9_State ==
    /\ handler_logs = IF pc = "crashed" THEN 1 ELSE 0
    /\ pc = "crashed" => exit_status = <<1>>
    /\ pc \in {"raised", "crashed"} => exc.type # "SystemExit"
    /\ pc = "system_exit" =>
          /\ exc = [fn |-> "parse_args", type |-> "SystemExit"]
          /\ exit_status \in {<<0>>, <<2>>}
          /\ stdout = IF exit_status = <<0>> THEN <<HelpText>> ELSE <<>>
          /\ calls = <<>> /\ fs = EmptyDict
    /\ C9_NothingAfterException

\* C9 amended: an exception derived from Exception that a library call raised
\* and no script catches is logged exactly once by the top level handler and
\* raised again, so that the process ends abnormally (status 1); the
\* SystemExit that parse_args raises passes the handler unlogged and ends the
\* process with its own status: 0 after printing the help for -h, 2 after a
\* usage error. In both cases the call that
\* failed is not made again and nothing else runs after the exception: no
\* library call, no output, no writing of result.json (a save that itself
\* failed leaves result.json absent or incomplete).
C9_UnhandledExceptionEndsRun ==
    []C9_State /\ [][C9_Step]_vars

\* process_raw raised in a bin2tif run, which ended in the handler
C9_Witness ==
    /\ pc = "crashed" /\ util = "bin2tif" /\ exc.fn = "process_raw"
    /\ handler_logs = 1 /\ ~ResultJsonWritten /\ Len(calls) = 10

----------------------------------------------------------------------------
(* C10 *)

\* the entries of --options
OptionEntries == split(args.options, ",")

EntryName(e) == IF find(e, "=") = 0 THEN e ELSE SubSeq(e, 1, find(e, "=") - 1)
EntryValue(e) == IF find(e, "=") = 0 THEN <<>> ELSE SubSeq(e, find(e, "=") + 1, Len(e))

\* an entry that is passed on: one without "=", or one with a name
EntryKept(e) == find(e, "=") = 0 \/ EntryName(e) # <<>>

\* C10: parsing --options never raises, and the options passed to the fetch
\* function are the kept entries, the value of a name being that of its
\* last entry.
C10_OptionsParsed ==
    (util = "fetch_bety_data" /\ TruthySeq(args.options)) =>
       /\ exc.fn # "split"
       /\ "opts" \in DOMAIN frame =>
             /\ DOMAIN frame["opts"] =
                  {EntryName(OptionEntries[i]) :
                     i \in {j \in DOMAIN OptionEntries : EntryKept(OptionEntries[j])}}
             /\ \A i \in DOMAIN OptionEntries :
                   (/\ EntryKept(OptionEntries[i])
                    /\ \A j \in DOMAIN OptionEntries :
                          (j > i /\ EntryKept(OptionEntries[j]))
                             => EntryName(OptionEntries[j]) # EntryName(OptionEntries[i]))
                   => frame["opts"][EntryName(OptionEntries[i])]
                        = EntryValue(OptionEntries[i])

\* the claim with every entry holding at most one "="
C10_OptionsParsedSingleEquals ==
    (/\ util = "fetch_bety_data"
     /\ \A i \in DOMAIN OptionEntries :
           Len(split(OptionEntries[i], "=")) <= 2) => C10_OptionsParsed

\* a=b,a was parsed: the later entry of a overrides the earlier one
C10_Witness ==
    /\ util = "fetch_bety_data"
    /\ args.options = <<"a", "=", "b", ",", "a">>
    /\ "opts" \in DOMAIN frame
    /\ frame["opts"] = [x \in {<<"a">>} |-> <<>>]

----------------------------------------------------------------------------
(* C11 *)

\* the library calls of a complete bin2tif run, in their order
BinCallOrder ==
    << "do_setup_logging", "do_load_json_file", "do_get_terraref_metadata",
       "do_get_season_and_experiment", "Sensors", "Sensors.get_display_name",
       "do_get_terraref_metadata", "get_image_shape", "do_geojson_to_tuples",
       "process_raw", "do_create_geotiff" >>

\* the names of the calls made so far
CallNames == [i \in DOMAIN calls |-> calls[i].fn]

\* check 1: the metadata file loaded as a non-empty document
JsonLoaded == ~NotLoadable

\* check 2: the library found stereoTop metadata
StereoTopFound ==
    /\ "terra_md_full" \in DOMAIN frame
    /\ frame["terra_md_full"] # NoneDict
    /\ frame["terra_md_full"] # EmptyDict

\* check 3: the metadata (its content, when it has one) holds a non-empty
\* timestamp, or no timestamp and a non-empty gantry datetime
TimestampFound ==
    LET md == frame["terra_md_full"]
        inner == IF "content" \in DOMAIN md THEN md.content ELSE md
    IN  IF "timestamp" \in DOMAIN inner
        THEN inner.timestamp # ""
        ELSE /\ "gantry_variable_metadata" \in DOMAIN inner
             /\ "datetime" \in DOMAIN inner.gantry_variable_metadata
             /\ inner.gantry_variable_metadata.datetime # ""

\* check 4: the file name ends in _left.bin or _right.bin
SuffixAccepted == ~BadSuffix

\* check 5: the image shape and the bounding box of the side were found
\* and converted
SpatialFound ==
    LET md == frame["terra_md_full"]
        side == IF endswith(args.bin_file, S_left_bin) THEN "left" ELSE "right"
    IN  /\ "spatial_metadata" \in DOMAIN md
        /\ side \in DOMAIN md.spatial_metadata
        /\ "bounding_box" \in DOMAIN md.spatial_metadata[side]
        /\ "gps_bounds_bin" \in DOMAIN frame

\* C11: bin2tif checks in the order JSON load (-1), stereoTop metadata (-2),
\* timestamp (-3), file name suffix (-4), image shape and bounding box (-5)
\* and returns at the first check that fails: code -k means that check k
\* failed after all the checks before it passed, and code 0 that all five
\* passed; the library calls made are those of the checks reached, in order.
C11_ChecksInOrder ==
    BinReturned =>
       /\ result.code \in {0, -1, -2, -3, -4, -5}
       /\ result.code = -1 <=> ~JsonLoaded
       /\ result.code = -2 <=> (JsonLoaded /\ ~StereoTopFound)
       /\ result.code = -3 <=>
             (JsonLoaded /\ StereoTopFound /\ ~TimestampFound)
       /\ result.code = -4 <=>
             (JsonLoaded /\ StereoTopFound /\ TimestampFound /\ ~SuffixAccepted)
       /\ result.code = -5 <=>
             (/\ JsonLoaded /\ StereoTopFound /\ TimestampFound
              /\ SuffixAccepted /\ ~SpatialFound)
       /\ result.code = 0 <=>
             (/\ JsonLoaded /\ StereoTopFound /\ TimestampFound
              /\ SuffixAccepted /\ SpatialFound)
       /\ CallNames = SubSeq(BinCallOrder, 1, Len(calls))
       /\ Len(calls) \in CASE result.code = -1 -> {2}
                           [] result.code \in {-2, -3} -> {3}
                           [] result.code = -4 -> {6}
                           [] result.code = -5 -> {8, 9}
                           [] OTHER -> {11}

\* x_right.bin got -5: its metadata has a gantry datetime for timestamp and
\* spatial metadata, and the image shape or the bounding box of the right
\* side was not found
C11_Witness ==
    /\ BinReturned /\ result.code = -5
    /\ args.bin_file = <<"x">> \o S_right_bin
    /\ "timestamp" \notin DOMAIN frame["terra_md_full"]
    /\ "spatial_metadata" \in DOMAIN frame["terra_md_full"]
    /\ Len(calls) = 8

----------------------------------------------------------------------------
(* C12 *)

\* the positions in calls of the calls of a library function
CallsOf(fn) == {i \in DOMAIN calls : calls[i].fn = fn}

\* <working_space>/<base name of the bin file with .bin replaced by .tif>,
\* for a bin file whose name ends in .bin
ExpectedTiffPath ==
    LET name == basename(args.bin_file)
        dir == IF args.working_space[Len(args.working_space)] = "/"
               THEN args.working_space
               ELSE args.working_space \o <<"/">>
    IN  dir \o SubSeq(name, 1, Len(name) - 4) \o S_tif

\* C12: when bin2tif returns a negative code, neither process_raw nor
\* create_geotiff was called, no file was written and the result has no
\* container; when it returns 0, create_geotiff was called exactly once,
\* after the one call of process_raw, and the single container of the result
\* lists exactly one file, at <working_space>/<base name with .tif for .bin>.
C12_EffectsOfBin2tif ==
    BinReturned =>
       IF result.code < 0
       THEN /\ CallsOf("process_raw") = {}
            /\ CallsOf("do_create_geotiff") = {}
            /\ fs = EmptyDict
            /\ "container" \notin DOMAIN result
       ELSE /\ result.code = 0
            /\ Cardinality(CallsOf("do_create_geotiff")) = 1
            /\ Cardinality(CallsOf("process_raw")) = 1
            /\ \A i \in CallsOf("process_raw") :
                  \A j \in CallsOf("do_create_geotiff") : i < j
            /\ \A j \in CallsOf("do_create_geotiff") :
                  calls[j].args.out_path = ExpectedTiffPath
            /\ Len(result.container) = 1
            /\ Len(result.container[1].file) = 1
            /\ result.container[1].file[1].path = ExpectedTiffPath
            /\ DOMAIN fs = {ExpectedTiffPath}

\* d/x_left.bin was converted into /w/x_left.tif
C12_Witness ==
    /\ BinReturned /\ result.code = 0
    /\ args.bin_file = <<"d", "/", "x">> \o S_left_bin
    /\ args.working_space = <<"/", "w", "/">>
    /\ result.container[1].file[1].path
         = <<"/", "w", "/", "x", "_", "l", "e", "f", "t", ".", "t", "i", "f">>
    /\ Len(calls) = 11

====
